---------------------------- MODULE Spec2Model ----------------------------
(***************************************************************************)
(* A model of BeatPrints/lyrics.py: class Lyrics with its three methods    *)
(* get_manual_lyrics, get_lyrics (with check_instrumental) and             *)
(* select_lines.  Python strings are sequences of one-character strings.   *)
(***************************************************************************)
EXTENDS Integers, Sequences, FiniteSets

(***************************************************************************)
(* Bounds of the model.                                                    *)
(***************************************************************************)
MaxLines == 5
MaxSelLen == 4
MaxInput == 3
MaxResults == 2

(***************************************************************************)
(* Characters and the str methods the module uses.                         *)
(***************************************************************************)
NL == "\n"

WhitespaceChars == {" ", "\t", "\n", "\r"}

DigitChars == {"0", "1", "2", "3", "4", "5", "6", "7", "8", "9"}

\* str.lower() on one character (ASCII letters the model uses)
LowerChar(c) ==
    CASE c = "E" -> "e"
      [] c = "N" -> "n"
      [] c = "D" -> "d"
      [] c = "A" -> "a"
      [] OTHER -> c

\* str.lower()
Lower(s) == [k \in 1..Len(s) |-> LowerChar(s[k])]

RECURSIVE LStrip(_)
LStrip(s) ==
    IF s = <<>> THEN <<>>
    ELSE IF Head(s) \in WhitespaceChars THEN LStrip(Tail(s))
    ELSE s

RECURSIVE RStrip(_)
RStrip(s) ==
    IF s = <<>> THEN <<>>
    ELSE IF s[Len(s)] \in WhitespaceChars THEN RStrip(SubSeq(s, 1, Len(s) - 1))
    ELSE s

\* str.strip()
Strip(s) == RStrip(LStrip(s))

\* str.split(sep) for a one-character separator: always at least one segment
RECURSIVE SplitOn(_, _)
SplitOn(s, sep) ==
    IF s = <<>> THEN << <<>> >>
    ELSE IF Head(s) = sep THEN << <<>> >> \o SplitOn(Tail(s), sep)
    ELSE LET r == SplitOn(Tail(s), sep)
         IN  << <<Head(s)>> \o Head(r) >> \o Tail(r)

\* sep.join(parts)
RECURSIVE Join(_, _)
Join(parts, sep) ==
    IF parts = <<>> THEN <<>>
    ELSE IF Len(parts) = 1 THEN parts[1]
    ELSE parts[1] \o <<sep>> \o Join(Tail(parts), sep)

DigitVal(c) ==
    CASE c = "0" -> 0 [] c = "1" -> 1 [] c = "2" -> 2 [] c = "3" -> 3
      [] c = "4" -> 4 [] c = "5" -> 5 [] c = "6" -> 6 [] c = "7" -> 7
      [] c = "8" -> 8 [] c = "9" -> 9

RECURSIVE DecimalValue(_)
DecimalValue(s) ==
    IF s = <<>> THEN 0
    ELSE 10 * DecimalValue(SubSeq(s, 1, Len(s) - 1)) + DigitVal(s[Len(s)])

\* int(num): surrounding whitespace is ignored, the rest is read in base 10
IntOf(num) == DecimalValue(Strip(num))

\* the index of the first character at or after i that is no digit
RECURSIVE DigitRunEnd(_, _)
DigitRunEnd(s, i) ==
    IF i > Len(s) THEN i
    ELSE IF s[i] \in DigitChars THEN DigitRunEnd(s, i + 1)
    ELSE i

\* re.match(r"^\d+-\d+$", s): $ matches at the end of the string and also
\* just before a newline that is the last character of the string
ReMatch(s) ==
    LET j == DigitRunEnd(s, 1)
    IN  /\ j > 1
        /\ j <= Len(s)
        /\ s[j] = "-"
        /\ LET k == DigitRunEnd(s, j + 1)
           IN  /\ k > j + 1
               /\ \/ k = Len(s) + 1
                  \/ k = Len(s) /\ s[k] = NL

\* lines[lo:hi], a Python slice with 0 <= lo
PySlice(lines, lo, hi) ==
    SubSeq(lines, lo + 1, IF hi < Len(lines) THEN hi ELSE Len(lines))


(***************************************************************************)
(* The state: the call under way and its arguments, the console, the       *)
(* locals of the running method, and what the lookup service was asked.    *)
(***************************************************************************)
VARIABLES
    pc,              \* the position of the running method
    entry,           \* the method the caller invoked
    lyrics,          \* select_lines: the lyrics argument
    selection,       \* select_lines: the selection argument
    outcome,         \* how the call ended: a return or the exception raised
    result,          \* the value returned
    stdin,           \* the lines the user types at the console
    consumed,        \* how many of them input() has read
    lyrics_lines,    \* get_manual_lyrics: lyrics_lines
    line_number,     \* get_manual_lyrics: line_number
    manual_calls,    \* calls of get_manual_lyrics
    manual_returned, \* the value get_manual_lyrics returned
    results,         \* get_lyrics: results
    searches,        \* answered calls of api.search_lyrics
    check_calls,     \* returns of check_instrumental
    is_instrumental, \* the value check_instrumental returned
    check_first,     \* the first result of check_instrumental's own search
    fetches,         \* answered calls of api.get_lyrics_by_id
    fetched_id,      \* the id the lyrics were fetched by
    plain_lyrics,    \* get_lyrics: lyrics, the plain_lyrics field fetched
    lookup_raised    \* the lookup service raised an error of its own

vars == <<pc, entry, lyrics, selection, outcome, result, stdin, consumed,
          lyrics_lines, line_number, manual_calls, manual_returned, results,
          searches, check_calls, is_instrumental, check_first, fetches,
          fetched_id, plain_lyrics, lookup_raised>>

selectVars == <<lyrics, selection>>
manualVars == <<stdin, consumed, lyrics_lines, line_number, manual_calls,
                manual_returned>>
lookupVars == <<results, searches, check_calls, is_instrumental, check_first,
                fetches, fetched_id, plain_lyrics, lookup_raised>>

(***************************************************************************)
(* select_lines                                                            *)
(***************************************************************************)
Raise(e) == [kind |-> e, value |-> <<>>]

Return(v) == [kind |-> "Return", value |-> v]

\* except Exception as e: raise e
Reraise(r) == r

\* selected = [int(num) for num in selection.split("-")]
ParseSelection(sel) ==
    LET nums == SplitOn(sel, "-")
    IN  [k \in 1..Len(nums) |-> IntOf(nums[k])]

\* if selected[0] >= selected[1]
StartNotBeforeEnd(selected) == selected[1] >= selected[2]

\* if selected[0] <= 0
StartNotPositive(selected) == selected[1] <= 0

\* a bound that is off by one
EndAtOrBeyondLast(selected, line_count) == selected[2] >= line_count

\* if selected[1] > line_count
EndBeyondLast(selected, line_count) == selected[2] > line_count

\* extracted = lines[selected[0] - 1 : selected[1]]
Extract(lines, selected) == PySlice(lines, selected[1] - 1, selected[2])

\* a filter that also drops the lines of whitespace
DropBlank(extracted) == SelectSeq(extracted, LAMBDA line : Strip(line) # <<>>)

\* selected_lines = [line for line in extracted if line != ""]
DropEmpty(extracted) == SelectSeq(extracted, LAMBDA line : line # <<>>)

\* a join that trims every line
QuatrainStripEach(selected_lines) ==
    Join([k \in 1..Len(selected_lines) |-> Strip(selected_lines[k])], NL)

\* quatrain = "\n".join(selected_lines).strip()
Quatrain(selected_lines) == Strip(Join(selected_lines, NL))

\* the body of select_lines: what it raises or returns
SelectLines(lyr, sel) ==
    LET lines == SplitOn(lyr, NL)
        line_count == Len(lines)
    IN  Reraise(
        IF ~ReMatch(sel) THEN Raise("InvalidFormatError")
        ELSE LET selected == ParseSelection(sel)
             IN  IF Len(selected) # 2 THEN Raise("InvalidFormatError")
                 ELSE IF StartNotBeforeEnd(selected)
                      THEN Raise("InvalidSelectionError")
                 ELSE IF StartNotPositive(selected)
                      THEN Raise("InvalidSelectionError")
                 ELSE IF EndBeyondLast(selected, line_count)
                      THEN Raise("InvalidSelectionError")
                 ELSE LET extracted == Extract(lines, selected)
                          selected_lines == DropEmpty(extracted)
                      IN  IF Len(selected_lines) # 4
                          THEN Raise("LineLimitExceededError")
                          ELSE Return(Quatrain(selected_lines)))

select_lines ==
    /\ pc = "select_lines"
    /\ LET r == SelectLines(lyrics, selection)
       IN  /\ outcome' = r.kind
           /\ result' = r.value
    /\ pc' = "done"
    /\ UNCHANGED <<entry, selectVars, manualVars, lookupVars>>

(***************************************************************************)
(* get_manual_lyrics                                                       *)
(***************************************************************************)
END_WORD == <<"e", "n", "d">>

NO_LYRICS == <<"N", "o", " ", "l", "y", "r", "i", "c", "s", " ",
               "a", "v", "a", "i", "l", "a", "b", "l", "e">>

\* a test that does not fold the case
IsEndExact(line) == Strip(line) = END_WORD

\* if line.lower().strip() == 'end'
IsEnd(line) == Strip(Lower(line)) = END_WORD

\* if not lyrics_lines: return "No lyrics available"
\* lyrics = "\n".join(lyrics_lines); return lyrics
ManualValue(entered) ==
    IF entered = <<>> THEN NO_LYRICS ELSE Join(entered, NL)

\* return self.get_manual_lyrics()
ReturnManual(v) == v

\* the call: lyrics_lines = [], line_number = 1
CallManual ==
    /\ manual_calls' = manual_calls + 1
    /\ lyrics_lines' = <<>>
    /\ line_number' = 1
    /\ pc' = "manual_input"

\* get_manual_lyrics invoked by the caller
get_manual_lyrics ==
    /\ pc = "get_manual_lyrics"
    /\ CallManual
    /\ UNCHANGED <<entry, selectVars, outcome, result, stdin, consumed,
                   manual_returned, lookupVars>>

\* line = input(...): blocks until the user has typed a line; the loop body
ManualInput ==
    /\ pc = "manual_input"
    /\ consumed < Len(stdin)
    /\ consumed' = consumed + 1
    /\ LET line == stdin[consumed + 1]
       IN  IF IsEnd(line)
           THEN /\ pc' = "manual_return"
                /\ UNCHANGED <<lyrics_lines, line_number>>
           ELSE /\ lyrics_lines' = Append(lyrics_lines, line)
                /\ line_number' = line_number + 1
                /\ pc' = "manual_input"
    /\ UNCHANGED <<entry, selectVars, outcome, result, stdin, manual_calls,
                   manual_returned, lookupVars>>

\* after the loop: the placeholder or the joined lines, handed to the caller
ManualReturn ==
    /\ pc = "manual_return"
    /\ LET v == ManualValue(lyrics_lines)
       IN  /\ manual_returned' = v
           /\ IF entry = "get_lyrics"
              THEN /\ result' = ReturnManual(v)
                   /\ outcome' = "Manual"
              ELSE /\ result' = v
                   /\ outcome' = "Return"
    /\ pc' = "done"
    /\ UNCHANGED <<entry, selectVars, stdin, consumed, lyrics_lines,
                   line_number, manual_calls, lookupVars>>

(***************************************************************************)
(* get_lyrics and check_instrumental                                       *)
(***************************************************************************)
\* i.DESC, the placeholder of BeatPrints.consts.Instrumental
DESC == <<"D", "E", "S", "C">>

Ids == {1, 2}

\* what api.search_lyrics may answer: a list of results, possibly empty
ResultLists ==
    UNION {[1..n -> [id : Ids, instrumental : BOOLEAN]] : n \in 0..MaxResults}

\* what .plain_lyrics may be: None or a string, possibly empty
PlainLyricsValues ==
    {[absent |-> TRUE, text |-> <<>>]} \cup
    {[absent |-> FALSE, text |-> t] :
        t \in {<<>>, <<"a">>, <<" ", "a", NL, NL, "b", NL>>}}

\* a test that takes the empty string for lyrics
IsAbsent(pl) == pl.absent

\* if not lyrics
NotLyrics(pl) == pl.absent \/ pl.text = <<>>

\* a check that reads the last result
LastInstrumental(res) == res[Len(res)].instrumental

\* return results[0].instrumental
FirstInstrumental(res) == res[1].instrumental

\* results[0].id
FirstId(res) == res[1].id

\* results = api.search_lyrics(...)
GetLyricsSearch ==
    /\ pc = "get_lyrics"
    /\ \E r \in ResultLists : results' = r
    /\ searches' = searches + 1
    /\ pc' = "if_not_results"
    /\ UNCHANGED <<entry, selectVars, outcome, result, manualVars, check_calls,
                   is_instrumental, check_first, fetches, fetched_id,
                   plain_lyrics, lookup_raised>>

\* an error of the lookup service, in any of its three calls, is not caught
LookupRaises ==
    /\ pc \in {"get_lyrics", "check_instrumental", "fetch"}
    /\ lookup_raised' = TRUE
    /\ outcome' = "LookupError"
    /\ pc' = "done"
    /\ UNCHANGED <<entry, selectVars, result, manualVars, results, searches,
                   check_calls, is_instrumental, check_first, fetches,
                   fetched_id, plain_lyrics>>

\* if not results: return self.get_manual_lyrics()
GetLyricsNoResults ==
    /\ pc = "if_not_results"
    /\ results = <<>>
    /\ CallManual
    /\ UNCHANGED <<entry, selectVars, outcome, result, stdin, consumed,
                   manual_returned, lookupVars>>

\* otherwise on to: if self.check_instrumental(metadata)
GetLyricsHasResults ==
    /\ pc = "if_not_results"
    /\ results # <<>>
    /\ pc' = "check_instrumental"
    /\ UNCHANGED <<entry, selectVars, outcome, result, manualVars, lookupVars>>

\* check_instrumental: a search of its own, then results[0].instrumental,
\* an IndexError when that search answered with no result
check_instrumental ==
    /\ pc = "check_instrumental"
    /\ searches' = searches + 1
    /\ \E r \in ResultLists :
          IF r = <<>>
          THEN /\ outcome' = "IndexError"
               /\ pc' = "done"
               /\ UNCHANGED <<check_calls, is_instrumental, check_first>>
          ELSE /\ is_instrumental' = FirstInstrumental(r)
               /\ check_first' = r[1]
               /\ check_calls' = check_calls + 1
               /\ pc' = "if_instrumental"
               /\ UNCHANGED outcome
    /\ UNCHANGED <<entry, selectVars, result, manualVars, results, fetches,
                   fetched_id, plain_lyrics, lookup_raised>>

\* if self.check_instrumental(metadata): return i.DESC
GetLyricsInstrumental ==
    /\ pc = "if_instrumental"
    /\ is_instrumental
    /\ result' = DESC
    /\ outcome' = "Instrumental"
    /\ pc' = "done"
    /\ UNCHANGED <<entry, selectVars, manualVars, lookupVars>>

GetLyricsNotInstrumental ==
    /\ pc = "if_instrumental"
    /\ ~is_instrumental
    /\ pc' = "fetch"
    /\ UNCHANGED <<entry, selectVars, outcome, result, manualVars, lookupVars>>

\* lyrics = api.get_lyrics_by_id(results[0].id).plain_lyrics
GetLyricsFetch ==
    /\ pc = "fetch"
    /\ fetched_id' = FirstId(results)
    /\ fetches' = fetches + 1
    /\ \E pl \in PlainLyricsValues : plain_lyrics' = pl
    /\ pc' = "if_not_lyrics"
    /\ UNCHANGED <<entry, selectVars, outcome, result, manualVars, results,
                   searches, check_calls, is_instrumental, check_first,
                   lookup_raised>>

\* if not lyrics: return self.get_manual_lyrics()
GetLyricsNoLyrics ==
    /\ pc = "if_not_lyrics"
    /\ NotLyrics(plain_lyrics)
    /\ CallManual
    /\ UNCHANGED <<entry, selectVars, outcome, result, stdin, consumed,
                   manual_returned, lookupVars>>

\* the numbered listing is printed; return lyrics
GetLyricsSuccess ==
    /\ pc = "if_not_lyrics"
    /\ ~NotLyrics(plain_lyrics)
    /\ result' = plain_lyrics.text
    /\ outcome' = "Success"
    /\ pc' = "done"
    /\ UNCHANGED <<entry, selectVars, manualVars, lookupVars>>

(***************************************************************************)
(* The inputs and the specifications.                                      *)
(***************************************************************************)
\* the strings over alphabet of length at most n
Strings(alphabet, n) == UNION {[1..k -> alphabet] : k \in 0..n}

\* the lines a lyrics text is made of
LyricLines == {<<>>, <<" ">>, <<"a">>, <<" ", "b", "\t">>}

\* lyrics texts of at most MaxLines lines
LyricsTexts ==
    {Join(ls, NL) : ls \in UNION {[1..k -> LyricLines] : k \in 1..MaxLines}}

\* the decimal numeral of n
RECURSIVE Numeral(_)
Numeral(n) ==
    LET d == CHOOSE c \in DigitChars : DigitVal(c) = n % 10
    IN  IF n < 10 THEN <<d>> ELSE Numeral(n \div 10) \o <<d>>

\* the selections "a-b" around the line numbers of such a text
RangeSelections ==
    {Numeral(a) \o <<"-">> \o Numeral(b) : a, b \in 0..(MaxLines + 1)}

\* any short string as a selection, against a few short texts
SelectionChars == {"0", "1", "4", "-", NL, " ", "x"}

ShortTexts ==
    {<<>>, <<"a", NL, "b", NL, "a", NL, "b">>, <<"a", NL, " ", NL, "a", NL, "a">>}

\* the lines the user may type
InputLines ==
    {END_WORD, <<" ", "E", "n", "D", " ">>, <<>>, <<"a">>,
     <<"e", "n", "d", " ", "a">>}

Quiet ==
    /\ outcome = "none"
    /\ result = <<>>
    /\ consumed = 0
    /\ lyrics_lines = <<>>
    /\ line_number = 1
    /\ manual_calls = 0
    /\ manual_returned = <<>>
    /\ results = <<>>
    /\ searches = 0
    /\ check_calls = 0
    /\ is_instrumental = FALSE
    /\ check_first = [id |-> 0, instrumental |-> FALSE]
    /\ fetches = 0
    /\ fetched_id = 0
    /\ plain_lyrics = [absent |-> TRUE, text |-> <<>>]
    /\ lookup_raised = FALSE

InitSelect ==
    /\ pc = "select_lines"
    /\ entry = "select_lines"
    /\ \/ lyrics \in LyricsTexts /\ selection \in RangeSelections
       \/ lyrics \in ShortTexts /\ selection \in Strings(SelectionChars, MaxSelLen)
    /\ stdin = <<>>
    /\ Quiet

InitManual ==
    /\ pc = "get_manual_lyrics"
    /\ entry = "get_manual_lyrics"
    /\ lyrics = <<>>
    /\ selection = <<>>
    /\ stdin \in Strings(InputLines, MaxInput)
    /\ Quiet

InitAcquire ==
    /\ pc = "get_lyrics"
    /\ entry = "get_lyrics"
    /\ lyrics = <<>>
    /\ selection = <<>>
    /\ stdin \in Strings(InputLines, MaxInput)
    /\ Quiet

NextManual ==
    \/ get_manual_lyrics
    \/ ManualInput
    \/ ManualReturn

NextAcquire ==
    \/ GetLyricsSearch
    \/ LookupRaises
    \/ GetLyricsNoResults
    \/ GetLyricsHasResults
    \/ check_instrumental
    \/ GetLyricsInstrumental
    \/ GetLyricsNotInstrumental
    \/ GetLyricsFetch
    \/ GetLyricsNoLyrics
    \/ GetLyricsSuccess
    \/ ManualInput
    \/ ManualReturn

Init == InitSelect \/ InitManual \/ InitAcquire

Next == select_lines \/ NextManual \/ NextAcquire

\* every method of the class
Spec == Init /\ [][Next]_vars

\* select_lines alone
SpecSelect == InitSelect /\ [][select_lines]_vars

\* get_manual_lyrics alone
SpecManual == InitManual /\ [][NextManual]_vars

\* get_lyrics, with its fallback to get_manual_lyrics
SpecAcquire == InitAcquire /\ [][NextAcquire]_vars

(***************************************************************************)
(* The vocabulary of the properties, stated on the text itself.            *)
(***************************************************************************)
\* the positions of the newlines of a text
NewlinesOf(text) == {p \in 1..Len(text) : text[p] = NL}

\* N: the number of segments between the newlines of a text
NumLines(text) == Cardinality(NewlinesOf(text)) + 1

\* the position of the k-th newline of a text; 0 and Len + 1 close the text
NewlineAt(text, k) ==
    IF k = 0 THEN 0
    ELSE IF k > Cardinality(NewlinesOf(text)) THEN Len(text) + 1
    ELSE CHOOSE p \in NewlinesOf(text) :
            Cardinality({q \in NewlinesOf(text) : q <= p}) = k

\* the k-th line of a text, 1 <= k <= NumLines(text)
LineOf(text, k) ==
    SubSeq(text, NewlineAt(text, k - 1) + 1, NewlineAt(text, k) - 1)

\* exactly two runs of digits separated by one hyphen, and nothing else
WellFormed(sel) ==
    \E h \in 2..(Len(sel) - 1) :
        /\ sel[h] = "-"
        /\ \A k \in (1..Len(sel)) \ {h} : sel[k] \in DigitChars

HyphenOf(sel) == CHOOSE h \in 1..Len(sel) : sel[h] = "-"

\* a and b of a selection "a-b": the numbers its digits before and after
\* the hyphen spell
StartOf(sel) ==
    DecimalValue(SelectSeq(SubSeq(sel, 1, HyphenOf(sel) - 1),
                           LAMBDA c : c \in DigitChars))

EndOf(sel) ==
    DecimalValue(SelectSeq(SubSeq(sel, HyphenOf(sel) + 1, Len(sel)),
                           LAMBDA c : c \in DigitChars))

\* 0 < a < b <= N
InBounds(text, sel) ==
    /\ WellFormed(sel)
    /\ 0 < StartOf(sel)
    /\ StartOf(sel) < EndOf(sel)
    /\ EndOf(sel) <= NumLines(text)

\* S: the lines a..b of the text that are not the empty string, in order
Retained(text, sel) ==
    SelectSeq([k \in 1..(EndOf(sel) - StartOf(sel) + 1) |->
                  LineOf(text, StartOf(sel) + k - 1)],
              LAMBDA line : line # <<>>)

IsBlank(s) == \A k \in 1..Len(s) : s[k] \in WhitespaceChars

\* r is s without the whitespace at its two ends
IsTrimOf(r, s) ==
    /\ r = <<>> \/ (r[1] \notin WhitespaceChars /\ r[Len(r)] \notin WhitespaceChars)
    /\ \E i \in 1..(Len(s) + 1) : \E j \in (i - 1)..Len(s) :
          /\ r = SubSeq(s, i, j)
          /\ IsBlank(SubSeq(s, 1, i - 1))
          /\ IsBlank(SubSeq(s, j + 1, Len(s)))

SelectDone == entry = "select_lines" /\ pc = "done"

Returned == SelectDone /\ outcome = "Return"

(***************************************************************************)
(* C1: for a selection "a-b" of the start-end form and a text of N lines,  *)
(* select_lines raises InvalidSelectionError when a >= b or a <= 0 or      *)
(* b > N, and in no other case.                                            *)
(***************************************************************************)
C1_InvalidSelectionIff ==
    (SelectDone /\ WellFormed(selection)) =>
        (outcome = "InvalidSelectionError" <=>
            \/ StartOf(selection) >= EndOf(selection)
            \/ StartOf(selection) <= 0
            \/ EndOf(selection) > NumLines(lyrics))

\* an ordered range with a positive start whose end lies beyond the last
\* line has been refused
C1_Witness ==
    /\ SelectDone
    /\ WellFormed(selection)
    /\ 0 < StartOf(selection)
    /\ StartOf(selection) < EndOf(selection)
    /\ EndOf(selection) = NumLines(lyrics) + 1
    /\ NumLines(lyrics) >= 4
    /\ outcome = "InvalidSelectionError"

(***************************************************************************)
(* C2: select_lines raises InvalidFormatError for every selection that is  *)
(* not exactly two runs of digits separated by one hyphen (a trailing      *)
(* newline included), and never for a selection of that form.              *)
(***************************************************************************)
C2_FormatErrorIffMalformed ==
    SelectDone => (outcome = "InvalidFormatError" <=> ~WellFormed(selection))

(***************************************************************************)
(* C3: for an in-bounds range 0 < a < b <= N, with S the lines a..b that   *)
(* are not the empty string (lines of whitespace are kept): if S has not 4 *)
(* lines select_lines raises LineLimitExceededError, otherwise it returns  *)
(* the lines of S in order, joined by newline and trimmed at both ends.    *)
(***************************************************************************)
C3_QuatrainOrLineLimit ==
    (SelectDone /\ InBounds(lyrics, selection)) =>
        LET S == Retained(lyrics, selection)
        IN  IF Len(S) # 4
            THEN outcome = "LineLimitExceededError"
            ELSE outcome = "Return" /\ IsTrimOf(result, Join(S, NL))

\* a range holding an empty line and a line of whitespace among its five
\* lines has been returned
C3_Witness ==
    /\ Returned
    /\ InBounds(lyrics, selection)
    /\ EndOf(selection) - StartOf(selection) = 4
    /\ \E k \in 2..3 : IsBlank(Retained(lyrics, selection)[k])
    /\ result # Join(Retained(lyrics, selection), NL)

(***************************************************************************)
(* C4: whenever select_lines returns, the text returned, split on newline, *)
(* has exactly 4 lines and none of them is empty.                          *)
(***************************************************************************)
C4_ReturnsFourNonEmptyLines ==
    Returned =>
        /\ NumLines(result) = 4
        /\ \A k \in 1..NumLines(result) : LineOf(result, k) # <<>>

C8_FirstFailingCheckDecides ==
    SelectDone =>
        outcome =
            IF ~WellFormed(selection) THEN "InvalidFormatError"
            ELSE IF ~(StartOf(selection) < EndOf(selection))
                 THEN "InvalidSelectionError"
            ELSE IF ~(StartOf(selection) > 0) THEN "InvalidSelectionError"
            ELSE IF ~(EndOf(selection) <= NumLines(lyrics))
                 THEN "InvalidSelectionError"
            ELSE IF Len(Retained(lyrics, selection)) # 4
                 THEN "LineLimitExceededError"
            ELSE "Return"

(***************************************************************************)
(* C7: get_manual_lyrics stops at the first line typed that is "end" once  *)
(* trimmed and with the case ignored; that line and the lines after it are *)
(* no part of the result; with no line before it the result is the         *)
(* literal "No lyrics available", otherwise the lines before it, unaltered *)
(* and in order, the empty ones too, joined by newline.                    *)
(***************************************************************************)
IsSentinel(line) == Lower(Strip(line)) = <<"e", "n", "d">>

SentinelsOf(input) == {k \in 1..Len(input) : IsSentinel(input[k])}

C7_ManualStopsAtFirstSentinel ==
    (entry = "get_manual_lyrics" /\ pc = "done") =>
        /\ SentinelsOf(stdin) # {}
        /\ LET k == CHOOSE m \in SentinelsOf(stdin) :
                       \A n \in SentinelsOf(stdin) : m <= n
           IN  /\ consumed = k
               /\ outcome = "Return"
               /\ result =
                    IF k = 1
                    THEN <<"N", "o", " ", "l", "y", "r", "i", "c", "s", " ",
                           "a", "v", "a", "i", "l", "a", "b", "l", "e">>
                    ELSE Join(SubSeq(stdin, 1, k - 1), NL)

\* an empty line, then " EnD ", then a line that is never read
C7_Witness ==
    /\ entry = "get_manual_lyrics"
    /\ pc = "done"
    /\ Len(stdin) = 3
    /\ stdin[1] = <<>>
    /\ stdin[2] = <<" ", "E", "n", "D", " ">>
    /\ result = <<>>

(***************************************************************************)
(* C5: in get_lyrics, get_manual_lyrics is invoked exactly when the search *)
(* answers with no result, or when the instrumental check found the first  *)
(* result not flagged instrumental and the text fetched by the first       *)
(* result's id is empty or absent; it is invoked at most once, its result  *)
(* is the result of get_lyrics, and after an empty search neither the      *)
(* instrumental check nor the fetch is performed.                          *)
(***************************************************************************)
SearchEmpty == searches >= 1 /\ results = <<>>

NotFlagged == check_calls = 1 /\ ~check_first.instrumental

NoTextFetched ==
    fetches = 1 /\ (plain_lyrics.absent \/ Len(plain_lyrics.text) = 0)

C5_ManualExactlyWhenNothingFound ==
    entry = "get_lyrics" =>
        /\ manual_calls <= 1
        /\ manual_calls = 1 =>
              \/ SearchEmpty
              \/ NotFlagged /\ NoTextFetched /\ fetched_id = results[1].id
        /\ (pc \notin {"if_not_results", "if_not_lyrics"}
              /\ (SearchEmpty \/ (NotFlagged /\ NoTextFetched)))
              => manual_calls = 1
        /\ SearchEmpty => (check_calls = 0 /\ fetches = 0 /\ searches = 1)
        /\ (pc = "done" /\ manual_calls = 1) =>
              (outcome = "Manual" /\ result = manual_returned)

\* the text fetched was the empty string and the lines the user typed,
\* whitespace included, came back
C5_Witness ==
    /\ entry = "get_lyrics"
    /\ pc = "done"
    /\ manual_calls = 1
    /\ Len(results) = 2
    /\ fetches = 1
    /\ ~plain_lyrics.absent
    /\ outcome = "Manual"
    /\ result = <<"e", "n", "d", " ", "a">>

C9_EndsManualInstrumentalOrSuccess ==
    (entry = "get_lyrics" /\ pc = "done" /\ ~lookup_raised) =>
        /\ outcome \in {"Manual", "Instrumental", "Success"}
        /\ outcome = "Success" => result = plain_lyrics.text

=============================================================================
